---- MODULE Spec2Model ----
(***************************************************************************)
(* Model of pydna's CRISPR/USER cut-site finders (src/src/pydna/crispr.py, *)
(* src/src/pydna/user.py).  Python strings are sequences of one-character  *)
(* strings; regular expressions are kept as the pattern text the code      *)
(* builds and are read back by ReadRe, the fragment of the `re` syntax the *)
(* code produces (literals, ".", "[...]" classes, "{n}" repeat counts).    *)
(***************************************************************************)
EXTENDS Integers, Sequences, FiniteSets, TLC

VARIABLES pc,          \* what has been called so far in this behaviour
          pamobj,      \* the constructed pam object: [pam, re, rcre]
          finder,      \* the constructed Cas9-class finder (self)
          dna,         \* argument of the last search: the raw sequence
          linear,      \* argument of the last search
          results,     \* list returned by the last search
          strands,     \* per element of results, the group (w or c) that produced it
          guide,       \* argument of the last protospacer() call
          gcas,        \* its cas argument
          in_watson,   \* protospacer()'s local in_watson
          in_crick,    \* protospacer()'s local in_crick
          extracted,   \* list returned by the last protospacer() call
          udna,        \* argument of the last USER.search: [watson, crick]
          uresults     \* list returned by the last USER.search

vars == <<pc, pamobj, finder, dna, linear, results, strands, guide, gcas,
          in_watson, in_crick, extracted, udna, uresults>>

(***************************************************************************)
(* Bounds of the model.                                                    *)
(***************************************************************************)
MaxMotifLen == 3     \* motifs given to pam() are enumerated up to this length
MaxBlocks == 3       \* searched sequences are built from at most this many blocks
MaxVaryLen == 3      \* guide protospacers vary freely in this many leading bases
MaxUserLen == 6      \* USER strands are enumerated up to this length
MaxTestLen == 3      \* concrete strings a compiled motif is tried on, up to this length

(***************************************************************************)
(* Strings.                                                                *)
(***************************************************************************)
Nuc == {"A", "C", "G", "T"}

RECURSIVE StrsUpTo(_, _)
\* all strings over alphabet S of length at most n
StrsUpTo(S, n) ==
    IF n = 0 THEN {<<>>}
    ELSE LET shorter == StrsUpTo(S, n - 1)
         IN  shorter \cup {Append(w, c) : w \in {x \in shorter : Len(x) = n - 1}, c \in S}

Reverse(s) == [i \in 1..Len(s) |-> s[Len(s) + 1 - i]]

\* Python slice s[a:b] for 0 <= a, with b clipped to len(s)
Slice(s, a, b) ==
    LET hi == IF b < Len(s) THEN b ELSE Len(s)
    IN  IF a >= hi THEN <<>> ELSE SubSeq(s, a + 1, hi)

LowerToUpper ==
    ("a" :> "A") @@ ("c" :> "C") @@ ("g" :> "G") @@ ("t" :> "T") @@ ("n" :> "N")

\* str.upper()
Upper(s) ==
    [i \in 1..Len(s) |-> IF s[i] \in DOMAIN LowerToUpper THEN LowerToUpper[s[i]] ELSE s[i]]

\* Bio.Data.IUPACData.ambiguous_dna_values
ambiguous_dna_values ==
    ("A" :> <<"A">>) @@ ("C" :> <<"C">>) @@ ("G" :> <<"G">>) @@ ("T" :> <<"T">>) @@
    ("M" :> <<"A", "C">>) @@ ("R" :> <<"A", "G">>) @@ ("W" :> <<"A", "T">>) @@
    ("S" :> <<"C", "G">>) @@ ("Y" :> <<"C", "T">>) @@ ("K" :> <<"G", "T">>) @@
    ("V" :> <<"A", "C", "G">>) @@ ("H" :> <<"A", "C", "T">>) @@
    ("D" :> <<"A", "G", "T">>) @@ ("B" :> <<"C", "G", "T">>) @@
    ("X" :> <<"G", "A", "T", "C">>) @@ ("N" :> <<"G", "A", "T", "C">>)

IUPAC == DOMAIN ambiguous_dna_values

\* complement table behind pydna.utils.rc (ambiguity aware)
Complement ==
    ("A" :> "T") @@ ("C" :> "G") @@ ("G" :> "C") @@ ("T" :> "A") @@
    ("M" :> "K") @@ ("R" :> "Y") @@ ("W" :> "W") @@ ("S" :> "S") @@
    ("Y" :> "R") @@ ("K" :> "M") @@ ("V" :> "B") @@ ("H" :> "D") @@
    ("D" :> "H") @@ ("B" :> "V") @@ ("X" :> "X") @@ ("N" :> "N")

\* pydna.utils.rc: reverse complement
rc(s) == Reverse([i \in 1..Len(s) |-> Complement[s[i]]])

(***************************************************************************)
(* pam_to_re                                                               *)
(***************************************************************************)
Digit == <<"0", "1", "2", "3", "4", "5", "6", "7", "8", "9">>

RECURSIVE DecimalStr(_)
\* str(n) as formatted by the f-string
DecimalStr(n) ==
    IF n < 10 THEN <<Digit[n + 1]>>
    ELSE DecimalStr(n \div 10) \o <<Digit[(n % 10) + 1]>>

\* f"{{{count}}}"
Brace(count) == <<"{">> \o DecimalStr(count) \o <<"}">>

\* the "if count > 1: pam_re += ..." of lines 212-213 dropped on the loop's else branch
FlushForgotten(pam_re, count) == pam_re

\* lines 212-213 and 228-229: add a count to the last nuc if needed
Flush(pam_re, count) ==
    IF count > 1 THEN pam_re \o Brace(count) ELSE pam_re

\* the final flush lost
FinalFlushForgotten(pam_re, count) == pam_re

\* lines 226-229: the for loop's else branch
FinalFlush(pam_re, count) == Flush(pam_re, count)

RECURSIVE PamLoop(_, _, _, _, _)
\* the for loop of pam_to_re, at index c (1-based) with its locals
PamLoop(pam, c, pam_re, count, last_nuc) ==
    IF c > Len(pam) THEN FinalFlush(pam_re, count)
    ELSE LET new_nuc == ambiguous_dna_values[pam[c]]
         IN  IF new_nuc = last_nuc
             THEN PamLoop(pam, c + 1, pam_re, count + 1, last_nuc)
             ELSE LET closed == Flush(pam_re, count)
                      added == IF Len(new_nuc) = 1
                               THEN closed \o new_nuc
                               ELSE closed \o <<"[">> \o new_nuc \o <<"]">>
                  IN  PamLoop(pam, c + 1, added, 1, new_nuc)

\* last_nuc = None is the empty string here: no table entry is empty
pam_to_re(pam) == PamLoop(pam, 1, <<>>, 1, <<>>)

(***************************************************************************)
(* Reading a pattern: the sequence of character sets it matches, one per   *)
(* position.  AnyChar stands for what "." matches.                         *)
(***************************************************************************)
AnyChar == IUPAC \cup {"U", "a", "c", "g", "t", "n"}

DigitValue ==
    ("0" :> 0) @@ ("1" :> 1) @@ ("2" :> 2) @@ ("3" :> 3) @@ ("4" :> 4) @@
    ("5" :> 5) @@ ("6" :> 6) @@ ("7" :> 7) @@ ("8" :> 8) @@ ("9" :> 9)

RECURSIVE ParseInt(_, _, _, _)
\* the decimal number pat[i..j], acc so far
ParseInt(pat, i, j, acc) ==
    IF i > j THEN acc ELSE ParseInt(pat, i + 1, j, 10 * acc + DigitValue[pat[i]])

\* index of the first ch at or after position i
IndexFrom(pat, ch, i) == CHOOSE k \in i..Len(pat) : pat[k] = ch /\ \A m \in i..(k - 1) : pat[m] # ch

RECURSIVE ReadRe(_, _, _)
\* the sets matched by pat[i..], appended to acc
ReadRe(pat, i, acc) ==
    IF i > Len(pat) THEN acc
    ELSE LET atomEnd == IF pat[i] = "[" THEN IndexFrom(pat, "]", i) ELSE i
             cls == IF pat[i] = "[" THEN {pat[k] : k \in (i + 1)..(atomEnd - 1)}
                    ELSE IF pat[i] = "." THEN AnyChar
                    ELSE {pat[i]}
             counted == atomEnd < Len(pat) /\ pat[atomEnd + 1] = "{"
             close == IF counted THEN IndexFrom(pat, "}", atomEnd + 1) ELSE atomEnd
             n == IF counted THEN ParseInt(pat, atomEnd + 2, close - 1, 0) ELSE 1
         IN  ReadRe(pat, close + 1, acc \o [k \in 1..n |-> cls])

\* re.compile(pat), as the per-position character sets
Compile(pat) == ReadRe(pat, 1, <<>>)

\* whether the compiled pattern matches s at 0-based offset pos
MatchAt(cp, s, pos) ==
    /\ pos + Len(cp) <= Len(s)
    /\ \A i \in 1..Len(cp) : s[pos + i] \in cp[i]

(***************************************************************************)
(* class pam                                                               *)
(***************************************************************************)
NGG == <<"N", "G", "G">>
NNGRRT == <<"N", "N", "G", "R", "R", "T">>

\* motifs handed to pam(): every short IUPAC motif, the two PAMs of the
\* nuclease classes, and lower-case spellings
MotifSyms == {"A", "C", "G", "T", "N", "X", "R", "Y"}

MotifInputs ==
    (StrsUpTo(MotifSyms, MaxMotifLen) \ {<<>>})
        \cup {<<a>> : a \in IUPAC} \cup {<<a, b>> : a, b \in IUPAC}
        \cup {NGG, NNGRRT, rc(NGG), rc(NNGRRT), <<"n", "g", "g">>,
              <<"N", "N", "N", "N", "G">>}

\* pam.__init__ (one object is constructed per behaviour)
pam_init(pam) ==
    /\ pc = "start"
    /\ pc' = "pam"
    /\ pamobj' = [pam |-> Upper(pam),
                  re |-> pam_to_re(Upper(pam)),
                  rcre |-> pam_to_re(rc(Upper(pam)))]
    /\ UNCHANGED <<finder, dna, linear, results, strands, guide, gcas,
                   in_watson, in_crick, extracted, udna, uresults>>

NoFinder ==
    [variant |-> "", protospacer |-> <<>>, watson |-> <<>>, crick |-> <<>>,
     compsite |-> [watson |-> <<>>, crick |-> <<>>]]

Init ==
    /\ pc = "start"
    /\ pamobj = [pam |-> <<>>, re |-> <<>>, rcre |-> <<>>]
    /\ finder = NoFinder
    /\ dna = <<>>
    /\ linear = TRUE
    /\ results = <<>>
    /\ strands = <<>>
    /\ guide = <<>>
    /\ gcas = ""
    /\ in_watson = <<>>
    /\ in_crick = <<>>
    /\ extracted = <<>>
    /\ udna = [watson |-> <<>>, crick |-> <<>>]
    /\ uresults = <<>>

PamNext == \E m \in MotifInputs : pam_init(m)

SpecPam == Init /\ [][PamNext]_vars

(***************************************************************************)
(* class _cas, cas9, SaCas9                                                *)
(***************************************************************************)
cas9_scaffold ==
    <<"G", "T", "T", "T", "T", "A", "G", "A", "G", "C", "T", "A", "G", "A", "A", "A", "T", "A", "G", "C", "A", "A", "G", "T", "T", "A", "A", "A", "A", "T", "A", "A", "G", "G">>
cas9_pam == NGG
cas9_size == 20
cas9_fst5 == 17
cas9_fst3 == -3

SaCas9_scaffold ==
    <<"G", "T", "T", "T", "T", "A", "G", "A", "G", "C", "T", "A", "G", "A", "A", "A", "T", "A", "G", "C", "A", "A", "G", "T", "T", "A", "A", "A", "A", "T", "A", "A", "G", "G">>
SaCas9_pam == NNGRRT
SaCas9_size == 21
SaCas9_fst5 == 17
SaCas9_fst3 == -3

\* protospacers handed to the constructors: short ones, ones of the classes'
\* nominal lengths, one in lower case
Proto20 ==
    <<"G", "G", "A", "A", "G", "A", "G", "T", "A", "A", "T", "A", "C", "A", "C", "T", "A", "A", "A", "A">>
Proto21 ==
    <<"A", "A", "G", "A", "A", "T", "A", "A", "A", "G", "A", "A", "T", "A", "A", "A", "G", "A", "A", "T", "A">>
\* a 20-base protospacer that, followed by CCGAAT, is its own reverse complement
ProtoPalin ==
    <<"A", "T", "T", "C", "G", "G", "A", "C", "G", "T", "A", "C", "G", "C", "G", "T", "A", "C", "G", "T">>
ProtoInputs ==
    {<<"A", "T">>, <<"a", "t">>, <<"A", "C">>, <<"G", "G">>, Proto20, Proto21, ProtoPalin}

\* re.compile of (?=(?P<watson>{watson}))|(?=(?P<crick>{crick})): the finder keeps
\* the texts of the two alternatives and their compiled forms
CompileSite(variant_, protospacer_, watson_, crick_) ==
    [variant |-> variant_,
     protospacer |-> protospacer_,
     watson |-> watson_,
     crick |-> crick_,
     compsite |-> [watson |-> Compile(watson_), crick |-> Compile(crick_)]]

\* _cas.__init__, inherited by cas9: self.pam goes into the pattern as written
cas_init(protospacer_) ==
    CompileSite("cas9", Upper(protospacer_),
                Upper(protospacer_) \o cas9_pam,
                rc(cas9_pam) \o rc(Upper(protospacer_)))

\* SaCas9.__init__
SaCas9_init(protospacer_) ==
    LET pamre == pam_to_re(SaCas9_pam)
        pamrerc == pam_to_re(rc(SaCas9_pam))
    IN  CompileSite("SaCas9", Upper(protospacer_),
                    Upper(protospacer_) \o pamre,
                    pamrerc \o rc(Upper(protospacer_)))

\* the offsets of 0..n that are in hits, in increasing order
Increasing(hits, n) ==
    LET isHit(x) == x \in hits
    IN  SelectSeq([i \in 1..(n + 1) |-> i - 1], isHit)

\* all watson matches, then all crick matches
finditer_strand_by_strand(self, s) ==
    LET w == self.compsite.watson
        c == self.compsite.crick
        ws == Increasing({pos \in 0..Len(s) : MatchAt(w, s, pos)}, Len(s))
        cs == Increasing({pos \in 0..Len(s) : MatchAt(c, s, pos)}, Len(s))
    IN  [i \in 1..Len(ws) |-> [start |-> ws[i], group |-> "watson"]]
            \o [i \in 1..Len(cs) |-> [start |-> cs[i], group |-> "crick"]]

\* self.compsite.finditer(dna): the match objects of
\* (?=(?P<watson>..))|(?=(?P<crick>..)), in order: one empty match per offset
\* at which an alternative succeeds, with the first alternative that does
finditer(self, s) ==
    LET w == self.compsite.watson
        c == self.compsite.crick
        at == Increasing({pos \in 0..Len(s) : MatchAt(w, s, pos) \/ MatchAt(c, s, pos)},
                         Len(s))
    IN  [i \in 1..Len(at) |->
            [start |-> at[i],
             group |-> IF MatchAt(w, s, at[i]) THEN "watson" ELSE "crick"]]

\* cas9.search, lines 115-118
cas9_extend(dna_, linear_) ==
    IF linear_ THEN dna_ ELSE dna_ \o Slice(dna_, 1, cas9_size)

\* the crick coordinate with fst3 added instead of subtracted
cas9_coordinate_sign_slip(mobj) ==
    IF mobj.group = "watson" THEN mobj.start + 1 + cas9_fst5
    ELSE mobj.start + Len(cas9_pam) + 1 + cas9_fst3

\* cas9.search, lines 121-125: what one match object appends
cas9_coordinate(mobj) ==
    IF mobj.group = "watson" THEN mobj.start + 1 + cas9_fst5
    ELSE mobj.start + Len(cas9_pam) + 1 - cas9_fst3

\* cas9.search: the match objects found in the (extended) upper-cased dna
cas9_search(self, dna_, linear_) == finditer(self, cas9_extend(Upper(dna_), linear_))

\* SaCas9.search, lines 167-170
SaCas9_extend(dna_, linear_) ==
    IF linear_ THEN dna_ ELSE dna_ \o Slice(dna_, 1, SaCas9_size)

\* SaCas9.search, lines 173-177
SaCas9_coordinate(mobj) ==
    IF mobj.group = "watson" THEN mobj.start + 1 + SaCas9_fst5
    ELSE mobj.start + Len(SaCas9_pam) + 1 - SaCas9_fst3

\* SaCas9.search
SaCas9_search(self, dna_, linear_) == finditer(self, SaCas9_extend(Upper(dna_), linear_))

\* building blocks of the searched sequences: the finder's protospacer, its
\* reverse complement, PAM instances, the PAM motif as written, single bases
Palette(self) ==
    {self.protospacer, rc(self.protospacer), <<"A">>, <<"g">>}
        \cup (IF self.variant = "cas9"
              THEN {<<"A", "G", "G">>, cas9_pam, rc(cas9_pam)}
              ELSE {<<"C", "C", "G", "A", "A", "T">>, <<"A", "T", "T", "C", "G", "G">>})

RECURSIVE BlockStrs(_, _)
\* concatenations of at most n blocks
BlockStrs(blocks, n) ==
    IF n = 0 THEN {<<>>}
    ELSE LET shorter == BlockStrs(blocks, n - 1)
         IN  shorter \cup {w \o b : w \in shorter, b \in blocks}

DnaInputs(self) == BlockStrs(Palette(self), MaxBlocks)

Cas9Init(protospacer_) ==
    /\ pc = "start"
    /\ pc' = "finder"
    /\ finder' = cas_init(protospacer_)
    /\ UNCHANGED <<pamobj, dna, linear, results, strands, guide, gcas,
                   in_watson, in_crick, extracted, udna, uresults>>

SaCas9Init(protospacer_) ==
    /\ pc = "start"
    /\ pc' = "finder"
    /\ finder' = SaCas9_init(protospacer_)
    /\ UNCHANGED <<pamobj, dna, linear, results, strands, guide, gcas,
                   in_watson, in_crick, extracted, udna, uresults>>

Cas9Search ==
    /\ pc = "finder"
    /\ finder.variant = "cas9"
    /\ \E dna_ \in DnaInputs(finder), linear_ \in BOOLEAN :
         LET mobjs == cas9_search(finder, dna_, linear_)
         IN  /\ dna' = dna_
             /\ linear' = linear_
             /\ results' = [i \in 1..Len(mobjs) |-> cas9_coordinate(mobjs[i])]
             /\ strands' = [i \in 1..Len(mobjs) |-> mobjs[i].group]
    /\ pc' = "searched"
    /\ UNCHANGED <<pamobj, finder, guide, gcas, in_watson, in_crick, extracted, udna, uresults>>

SaCas9Search ==
    /\ pc = "finder"
    /\ finder.variant = "SaCas9"
    /\ \E dna_ \in DnaInputs(finder), linear_ \in BOOLEAN :
         LET mobjs == SaCas9_search(finder, dna_, linear_)
         IN  /\ dna' = dna_
             /\ linear' = linear_
             /\ results' = [i \in 1..Len(mobjs) |-> SaCas9_coordinate(mobjs[i])]
             /\ strands' = [i \in 1..Len(mobjs) |-> mobjs[i].group]
    /\ pc' = "searched"
    /\ UNCHANGED <<pamobj, finder, guide, gcas, in_watson, in_crick, extracted, udna, uresults>>

CasNext ==
    \/ \E p \in ProtoInputs : SaCas9Init(p)
    \/ \E p \in ProtoInputs : Cas9Init(p)
    \/ SaCas9Search
    \/ Cas9Search

SpecCas == Init /\ [][CasNext]_vars

(***************************************************************************)
(* re.finditer with a consuming pattern, protospacer(), USER.search        *)
(***************************************************************************)
RECURSIVE ScanSkippingOne(_, _, _)
\* the scan resumed one character after the end of each match
ScanSkippingOne(cp, s, from) ==
    LET hits == {q \in from..(Len(s) - Len(cp)) : MatchAt(cp, s, q)}
    IN  IF hits = {} THEN <<>>
        ELSE LET q == CHOOSE x \in hits : \A y \in hits : x <= y
             IN  <<q>> \o ScanSkippingOne(cp, s, q + Len(cp) + 1)

re_finditer_skipping_one(cp, s) == ScanSkippingOne(cp, s, 0)

RECURSIVE ConsumingScan(_, _, _)
\* start offsets of the non-overlapping matches of cp in s, leftmost first,
\* the scan resuming at the end of each match
ConsumingScan(cp, s, from) ==
    LET hits == {q \in from..(Len(s) - Len(cp)) : MatchAt(cp, s, q)}
    IN  IF hits = {} THEN <<>>
        ELSE LET q == CHOOSE x \in hits : \A y \in hits : x <= y
             IN  <<q>> \o ConsumingScan(cp, s, q + Len(cp))

\* re.finditer(pattern, s) for a pattern that consumes Len(cp) > 0 characters
re_finditer(cp, s) == ConsumingScan(cp, s, 0)

ScaffoldOf(cas) == IF cas = "cas9" THEN cas9_scaffold ELSE SaCas9_scaffold
CasSize(cas) == IF cas = "cas9" THEN cas9_size ELSE SaCas9_size

\* mobj.group() taken instead of mobj.group("ps")
watson_whole_match(s, start, size, scaffold) == Slice(s, start, start + size + Len(scaffold))

\* mobj.group("ps") of (?P<ps>.{size})(?:scaffold) matched at start
watson_group_ps(s, start, size, scaffold) == Slice(s, start, start + size)

\* mobj.group("ps") of (?:rc(scaffold))(?P<ps>.{size}) matched at start
crick_group_ps(s, start, size, scaffold) ==
    Slice(s, start + Len(scaffold), start + Len(scaffold) + size)

\* protospacer(guide_construct, cas): [in_watson, in_crick]
protospacer(guide_construct, cas) ==
    LET s == Upper(guide_construct)
        size == CasSize(cas)
        scaffold == ScaffoldOf(cas)
        wpat == <<".">> \o Brace(size) \o scaffold
        cpat == rc(scaffold) \o <<".">> \o Brace(size)
        wm == re_finditer(Compile(wpat), s)
        cm == re_finditer(Compile(cpat), s)
    IN  [in_watson |-> [i \in 1..Len(wm) |-> watson_group_ps(s, wm[i], size, scaffold)],
         in_crick |-> [i \in 1..Len(cm) |-> rc(crick_group_ps(s, cm[i], size, scaffold))]]

\* guide protospacers of exactly n bases: a free head on a fixed tail, and the
\* heads of the scaffold and of its reverse complement
Filler == Proto20 \o <<"C">>
GuideProtos(n) ==
    {w \o SubSeq(Filler, Len(w) + 1, n) : w \in StrsUpTo(Nuc, MaxVaryLen)}
        \cup {SubSeq(rc(cas9_scaffold), 1, n), SubSeq(cas9_scaffold, 1, n)}

\* guide constructs: protospacer + scaffold, its reverse complement, the same
\* behind one more base, both orientations in a row, a lower-case spelling
GuideInputs(cas) ==
    LET fw == {q \o ScaffoldOf(cas) : q \in GuideProtos(CasSize(cas))}
    IN  fw \cup {rc(g) : g \in fw} \cup {<<"T">> \o g : g \in fw}
           \cup {g \o rc(g) : g \in fw}
           \cup {<<"a", "c", "g", "t">> \o SubSeq(g, 5, Len(g)) : g \in fw}

Protospacer ==
    /\ pc = "start"
    /\ \E cas \in {"cas9", "SaCas9"} :
         \E guide_construct \in GuideInputs(cas) :
             LET found == protospacer(guide_construct, cas)
             IN  /\ guide' = guide_construct
                 /\ gcas' = cas
                 /\ in_watson' = found.in_watson
                 /\ in_crick' = found.in_crick
                 /\ extracted' = found.in_watson \o found.in_crick
    /\ pc' = "extracted"
    /\ UNCHANGED <<pamobj, finder, dna, linear, results, strands, udna, uresults>>

ProtoNext == Protospacer

SpecProto == Init /\ [][ProtoNext]_vars

USER_size == 6
USER_fst5 == 7

\* the text of the watson pattern, "[ACGT]{5}U"
USER_watson_pattern == <<"[", "A", "C", "G", "T", "]", "{", "5", "}", "U">>
\* the text of the crick pattern, "U[ACGT]{5}"
USER_crick_pattern == <<"U", "[", "A", "C", "G", "T", "]", "{", "5", "}">>

\* USER.search(dna): watson hits at start + fst5, then crick hits at end + fst5 - 1
USER_search(dna_) ==
    LET wcp == Compile(USER_watson_pattern)
        ccp == Compile(USER_crick_pattern)
        wm == re_finditer(wcp, dna_.watson)
        cm == re_finditer(ccp, dna_.crick)
    IN  [i \in 1..Len(wm) |-> wm[i] + USER_fst5]
            \o [i \in 1..Len(cm) |-> (cm[i] + Len(ccp)) + USER_fst5 - 1]

\* strands handed to USER.search: every short string over {A, U}, and longer
\* ones with adjacent sites, other bases and a character outside the class
UserStrs ==
    StrsUpTo({"A", "U"}, MaxUserLen)
        \cup {<<"A", "A", "A", "A", "A", "U", "A", "A", "A", "A", "A", "U">>,
              <<"U", "A", "A", "A", "A", "A", "U", "A", "A", "A", "A", "A">>,
              <<"A", "C", "G", "T", "A", "U", "G", "C", "A", "T", "G", "U">>,
              <<"U", "A", "C", "G", "T", "A", "U", "G", "C", "A", "T", "G">>,
              <<"A", "A", "A", "A", "N", "U", "A", "A", "A", "A", "A", "U", "U">>,
              <<"U", "U", "A", "C", "G", "T", "A", "A", "U", "A", "C", "G", "T", "N">>}

UserSearch ==
    /\ pc = "start"
    /\ \E w \in UserStrs, c \in UserStrs :
         /\ udna' = [watson |-> w, crick |-> c]
         /\ uresults' = USER_search([watson |-> w, crick |-> c])
    /\ pc' = "usearched"
    /\ UNCHANGED <<pamobj, finder, dna, linear, results, strands, guide, gcas,
                   in_watson, in_crick, extracted>>

UserNext == UserSearch

SpecUser == Init /\ [][UserNext]_vars

(***************************************************************************)
(* Vocabulary of the properties: a motif read position by position through *)
(* the ambiguity table, target sites, reported coordinates.                *)
(***************************************************************************)
AmbSet(a) == {ambiguous_dna_values[a][k] : k \in 1..Len(ambiguous_dna_values[a])}

NaiveAccepts(m, s) == Len(s) = Len(m) /\ \A i \in 1..Len(m) : s[i] \in AmbSet(m[i])

FullMatch(cp, s) == Len(s) = Len(cp) /\ MatchAt(cp, s, 0)

TestStrs == StrsUpTo(Nuc, MaxTestLen)

Str_GATC == <<"[", "G", "A", "T", "C", "]">>
Str_ATGC == <<"[", "A", "T", "G", "C", "]">>

PamOf(self) == IF self.variant = "cas9" THEN cas9_pam ELSE SaCas9_pam
SizeOf(self) == IF self.variant = "cas9" THEN cas9_size ELSE SaCas9_size
Fst5Of(self) == IF self.variant = "cas9" THEN cas9_fst5 ELSE SaCas9_fst5
Fst3Of(self) == IF self.variant = "cas9" THEN cas9_fst3 ELSE SaCas9_fst3
SiteLen(self) == Len(self.protospacer) + Len(PamOf(self))

\* w is the protospacer followed by a concrete instance of the PAM motif
IsForwardSite(self, w) ==
    LET P == self.protospacer
        m == PamOf(self)
    IN  /\ Len(w) = SiteLen(self)
        /\ SubSeq(w, 1, Len(P)) = P
        /\ \A i \in 1..Len(m) : w[Len(P) + i] \in AmbSet(m[i])

\* w is a concrete instance of reverseComplement(PAM) followed by
\* reverseComplement(protospacer)
IsReverseSite(self, w) ==
    LET P == self.protospacer
        m == rc(PamOf(self))
    IN  /\ Len(w) = SiteLen(self)
        /\ \A i \in 1..Len(m) : w[i] \in AmbSet(m[i])
        /\ SubSeq(w, Len(m) + 1, Len(w)) = rc(P)

WatsonCoord(self, s) == s + 1 + Fst5Of(self)
CrickCoord(self, s) == s + Len(PamOf(self)) + 1 - Fst3Of(self)

\* the search result holds coord, appended for a match of group grp
Reported(grp, coord) ==
    \E i \in 1..Len(results) : results[i] = coord /\ strands[i] = grp

\* the L characters of the circular sequence d from 0-based offset start on
CircWindow(d, start, L) == [i \in 1..L |-> d[((start + i - 1) % Len(d)) + 1]]

\* the string search scans: the upper-cased sequence, with dna[1:size] appended when circular
Scanned(self, d, lin) ==
    IF lin THEN Upper(d) ELSE Upper(d) \o Slice(Upper(d), 1, SizeOf(self))

\* 0-based match offset behind the i-th reported coordinate
OffsetOf(i) ==
    IF strands[i] = "watson" THEN results[i] - 1 - Fst5Of(finder)
    ELSE results[i] - Len(PamOf(finder)) - 1 + Fst3Of(finder)

(***************************************************************************)
(* Properties.                                                             *)
(***************************************************************************)

\* C1: a target site (protospacer + PAM instance, or its reverse-complement
\* form) that spans the junction between the last and the first character of
\* the sequence is reported by search(linear=False) and is not reported by
\* search(linear=True).
C1_JunctionSiteReportedIffCircular ==
    pc = "searched" =>
        LET d == Upper(dna)
            L == SiteLen(finder)
        IN  \A k \in 1..(L - 1) :
                Len(d) >= L =>
                    LET w == CircWindow(d, Len(d) - k, L)
                    IN  /\ IsForwardSite(finder, w) =>
                              (Reported("watson", WatsonCoord(finder, Len(d) - k)) <=> ~linear)
                        /\ IsReverseSite(finder, w) =>
                              (Reported("crick", CrickCoord(finder, Len(d) - k)) <=> ~linear)

\* C2: the forward pattern matches the protospacer followed by any concrete
\* string of the PAM motif's IUPAC expansion, the reverse pattern any concrete
\* string of the expansion of reverseComplement(PAM) followed by
\* reverseComplement(protospacer); hence a linear sequence that contains
\* protospacer + PAM instance gets that hit reported.
C2_PatternsMatchPamExpansion ==
    (pc = "searched" /\ linear) =>
        LET d == Upper(dna)
            L == SiteLen(finder)
        IN  \A s \in 0..(Len(d) - L) :
                LET w == SubSeq(d, s + 1, s + L)
                IN  /\ IsForwardSite(finder, w) =>
                          /\ MatchAt(finder.compsite.watson, d, s)
                          /\ Reported("watson", WatsonCoord(finder, s))
                    /\ IsReverseSite(finder, w) => MatchAt(finder.compsite.crick, d, s)

\* C3: pam_to_re(m), read as a character-class pattern with repeat counts,
\* accepts exactly the concrete strings s with len(s) = len(m) and s[i] in the
\* ambiguity set of m[i]: position by position its classes are the ambiguity
\* sets of the motif, and on every test string acceptance agrees with the
\* position-by-position reading.
C3_CompiledMotifAcceptsExactlyExpansion ==
    pc = "pam" =>
        LET cp == Compile(pamobj.re)
            m == pamobj.pam
        IN  /\ Len(cp) = Len(m)
            /\ \A i \in 1..Len(m) : cp[i] = AmbSet(m[i])
            /\ \A s \in TestStrs : FullMatch(cp, s) <=> NaiveAccepts(m, s)

\* C3 witness: a run of two different symbols with the same resolved set was merged
C3_Witness ==
    /\ pc = "pam"
    /\ pamobj.pam = <<"N", "X", "G">>
    /\ pamobj.re = Str_GATC \o <<"{", "2", "}", "G">>

\* C4: search reports one coordinate for every offset at which the forward
\* pattern matches the scanned string and one for every offset at which the
\* reverse pattern matches it, a forward and a reverse occurrence at the same
\* offset included.
C4_EveryOccurrenceReported ==
    pc = "searched" =>
        LET ext == Scanned(finder, dna, linear)
            F == {s \in 0..Len(ext) : MatchAt(finder.compsite.watson, ext, s)}
            R == {s \in 0..Len(ext) : MatchAt(finder.compsite.crick, ext, s)}
        IN  /\ \A s \in F : Reported("watson", WatsonCoord(finder, s))
            /\ \A s \in R : Reported("crick", CrickCoord(finder, s))
            /\ Len(results) = Cardinality(F) + Cardinality(R)

C6_CoordinateArithmetic ==
    pc = "searched" =>
        LET ext == Scanned(finder, dna, linear)
            fwd == 18
            rev == IF finder.variant = "cas9" THEN 7 ELSE 10
        IN  /\ fwd = 1 + Fst5Of(finder)
            /\ rev = Len(PamOf(finder)) + 1 - Fst3Of(finder)
            /\ \A i \in 1..Len(results) :
                   \E s \in 0..Len(ext) :
                       \/ MatchAt(finder.compsite.watson, ext, s) /\ results[i] = s + fwd
                       \/ MatchAt(finder.compsite.crick, ext, s) /\ results[i] = s + rev

\* C6 witness: a circular cas9 search that reported hits of both strands
C6_Witness ==
    /\ pc = "searched"
    /\ finder.variant = "cas9"
    /\ ~linear
    /\ \E i, j \in 1..Len(results) : strands[i] = "watson" /\ strands[j] = "crick"

\* C7: a sequence shorter than len(protospacer) + len(PAM) yields the empty
\* list, with linear=True and with linear=False.
C7_ShortSequenceYieldsEmpty ==
    (pc = "searched" /\ Len(dna) < SiteLen(finder)) => results = <<>>

C8_ProtospacerRoundTrip ==
    pc = "extracted" =>
        LET size == CasSize(gcas)
            scaffold == ScaffoldOf(gcas)
            q == SubSeq(guide, 1, size)
        IN  (/\ Len(guide) = size + Len(scaffold)
             /\ guide = q \o scaffold
             /\ \A i \in 1..size : q[i] \in Nuc)
                => /\ in_watson = <<q>>
                   /\ in_crick = <<>>
                   /\ extracted = <<q>>

\* C8 witness: protospacer() was called on a guide construct p + scaffold for SaCas9
C8_Witness ==
    /\ pc = "extracted"
    /\ gcas = "SaCas9"
    /\ Len(guide) = SaCas9_size + Len(SaCas9_scaffold)
    /\ SubSeq(guide, SaCas9_size + 1, Len(guide)) = SaCas9_scaffold
    /\ \A i \in 1..SaCas9_size : guide[i] \in Nuc
    /\ Len(extracted) = 1

\* the members of hits among the offsets 0..n, by trying every offset in turn
RECURSIVE EveryOffset(_, _, _)
EveryOffset(hits, from, n) ==
    IF from > n THEN <<>>
    ELSE (IF from \in hits THEN <<from>> ELSE <<>>) \o EveryOffset(hits, from + 1, n)

\* C10: USER.search misses no site although it scans without overlap: the
\* watson part of the result is start + fst5 for every offset at which
\* [ACGT]{5}U matches, the crick part end + fst5 - 1 for every offset at which
\* U[ACGT]{5} matches, as a scan attempted at every start offset gives.
C10_UserScanMissesNoSite ==
    pc = "usearched" =>
        LET w == udna.watson
            c == udna.crick
            W == {s \in 0..(Len(w) - 6) :
                      (\A i \in 1..5 : w[s + i] \in Nuc) /\ w[s + 6] = "U"}
            C == {s \in 0..(Len(c) - 6) :
                      c[s + 1] = "U" /\ (\A i \in 2..6 : c[s + i] \in Nuc)}
            ws == EveryOffset(W, 0, Len(w))
            cs == EveryOffset(C, 0, Len(c))
        IN  uresults = [i \in 1..Len(ws) |-> ws[i] + 7]
                           \o [i \in 1..Len(cs) |-> (cs[i] + 6) + 7 - 1]

\* C10 witness: two adjacent watson sites and a crick site were reported
C10_Witness ==
    /\ pc = "usearched"
    /\ udna.watson = <<"A", "A", "A", "A", "A", "U", "A", "A", "A", "A", "A", "U">>
    /\ Len(uresults) >= 3
    /\ uresults[1] = 7
    /\ uresults[2] = 13

====
